---- MODULE Spec2Model ----
(***************************************************************************)
(* enpass-cli (src/src/main.rs): the session run by main() and the record  *)
(* decryption function decrypt_enpass_data().                              *)
(*                                                                         *)
(* Three specifications share the module:                                  *)
(*   Spec      one run of main(): open, key pragma, version check,         *)
(*             identity query, key derivation, the Cards iteration;        *)
(*   DecSpec   decrypt_enpass_data() on one payload, one action per        *)
(*             iteration of its loop over the 4096-byte output buffer;     *)
(*   DerivSpec the key derivation block of main() applied to two           *)
(*             independently chosen inputs (for two-call comparisons).     *)
(*                                                                         *)
(* Bytes are the integers 0..255 and byte strings are sequences of them.   *)
(* The primitives of the external crates (AES-256, HMAC-SHA-256) are       *)
(* replaced by small keyed byte functions with the same shape: the block   *)
(* cipher is a key-dependent permutation of 16-byte blocks, the MAC a      *)
(* function of every byte of its key and message.  The modes built on      *)
(* them (CBC chaining, PKCS padding, PBKDF2's iteration, the buffer        *)
(* protocol of the decryptor) are modelled as such.                        *)
(***************************************************************************)
EXTENDS Integers, Sequences, FiniteSets, TLC

VARIABLES
    opt,          \* main: the parsed command line (Opt)
    dbIdentity,   \* the rows of table Identity, in query order
    dbCards,      \* the rows of table Cards, in the order of the ORDER BY
    conn,         \* main: the state of the connection of line 108
    pc,           \* main: the position reached
    identity,     \* main: the Identity bound at line 127
    keyiv,        \* main: the (key, iv) binding of line 125
    cursor,       \* main: rows of the Cards query consumed so far
    stdout,       \* the lines written to standard output
    stderr,       \* the lines written to standard error
    result,       \* how the process ended
    derivations,  \* number of pbkdf2 calls made by the run
    decryptLog,   \* one entry per call of decrypt_enpass_data by the run
    call,         \* DecSpec: the frame of decrypt_enpass_data
    harness,      \* DecSpec: what the payload was made from
    dcalls        \* DerivSpec: the two derivation calls

svars == <<opt, dbIdentity, dbCards, conn, pc, identity, keyiv, cursor,
           stdout, stderr, result, derivations, decryptLog>>
cvars == <<call, harness>>
vars == <<svars, cvars, dcalls>>

----------------------------------------------------------------------------
(* Bounds of the model *)

\* Longest Cards table explored.
MaxCards == 3
\* Number of distinct key/IV pairs and fill patterns tried by DecSpec.
NumKeys == 2

(* Program constants *)

\* AES block size in bytes (the CBC decryptor of line 59).
BlockSize == 16
\* let mut output_buffer = [0; 4096];
OutputBufferSize == 4096
\* let mut key = [0u8; 32];
KeyLen == 32
\* pbkdf2(&mut mac, &salt, 2, &mut key);
Pbkdf2Iterations == 2
\* identity.info[16..32]
IvStart == 16
\* identity.info[16..32] and identity.info[32..48]
SaltStart == 32
\* identity.info[32..48]
SaltEnd == 48

----------------------------------------------------------------------------
(* Byte helpers *)

Min(a, b) == IF a < b THEN a ELSE b

RECURSIVE Xor(_, _)
Xor(a, b) ==
    IF a = 0 THEN b
    ELSE IF b = 0 THEN a
    ELSE ((a + b) % 2) + 2 * Xor(a \div 2, b \div 2)

\* s[a..b] of Rust: the bytes at 0-based indices a .. b-1.
Slice(s, a, b) == SubSeq(s, a + 1, b)

\* A slice expression s[a..b] panics unless b <= s.len().
SliceInBounds(s, a, b) == a <= b /\ b <= Len(s)

Take(s, n) == SubSeq(s, 1, Min(n, Len(s)))
Drop(s, n) == SubSeq(s, Min(n, Len(s)) + 1, Len(s))

\* The byte string f as a sequence in full (a function written [i \in 1..n
\* |-> e] is otherwise evaluated anew at each application).
Bytes(f) == <<>> \o f

\* A byte string of length n with a seed-dependent content.
Pattern(n, seed) == Bytes([i \in 1..n |-> (seed * 7 + i * (2 * seed + 1)) % 256])

----------------------------------------------------------------------------
(* The block cipher and CBC with PKCS padding (crate rust-crypto)          *)

\* One block under the 32-byte key: a key-dependent permutation of blocks.
AesEncryptBlock(key, b) ==
    Bytes([i \in 1..BlockSize |->
             (b[BlockSize + 1 - i] + key[i] + key[BlockSize + i]) % 256])

XorBlock(a, b) == Bytes([i \in 1..BlockSize |-> Xor(a[i], b[i])])

\* The n-th (1-based) block of s.
BlockAt(s, n) == SubSeq(s, (n - 1) * BlockSize + 1, n * BlockSize)

\* Byte g (1-based) of the CBC decryption of the input: with n the block of
\* g and o its offset in it, D(C_n)[o] xor C_(n-1)[o], where C_0 = iv.
CbcDecryptByte(key, iv, input, g) ==
    LET n == ((g - 1) \div BlockSize) + 1
        o == ((g - 1) % BlockSize) + 1
        base == (n - 1) * BlockSize
        d == (input[base + BlockSize + 1 - o] + 512
                - key[BlockSize + 1 - o] - key[2 * BlockSize + 1 - o]) % 256
    IN  Xor(d, IF n = 1 THEN iv[o] ELSE input[base - BlockSize + o])

\* CBC decryption of block n of the input.
CbcDecryptBlock(key, iv, input, n) ==
    Bytes([o \in 1..BlockSize |->
             CbcDecryptByte(key, iv, input, (n - 1) * BlockSize + o)])

\* CBC decryption of blocks first .. first+count-1, concatenated.
CbcDecryptBlocks(key, iv, input, first, count) ==
    Bytes([g \in 1..(count * BlockSize) |->
             CbcDecryptByte(key, iv, input, (first - 1) * BlockSize + g)])

\* PkcsPadding on the encrypting side: 1..16 bytes, each the pad length.
PkcsPad(p) ==
    LET n == BlockSize - (Len(p) % BlockSize)
    IN  Bytes(p) \o [i \in 1..n |-> n]

\* DecPadding<PkcsPadding>::strip_output: the last byte v names the pad
\* length; the last v bytes must all be v.
PkcsValid(b) ==
    LET v == b[Len(b)]
    IN  /\ v >= 1
        /\ v <= Len(b)
        /\ \A i \in (Len(b) - v + 1)..Len(b) : b[i] = v

PkcsStrip(b) == SubSeq(b, 1, Len(b) - b[Len(b)])

\* CBC encryption of blocks n .. last of the padded text, prev being the
\* previous ciphertext block (the iv before block 1).
RECURSIVE CbcEncryptFrom(_, _, _, _, _)
CbcEncryptFrom(key, prev, padded, n, last) ==
    IF n > last THEN <<>>
    ELSE LET c == AesEncryptBlock(key, XorBlock(BlockAt(padded, n), prev))
         IN  c \o CbcEncryptFrom(key, c, padded, n + 1, last)

\* The same in runs of 32 blocks, each run chained to the one before.
RECURSIVE CbcEncryptRuns(_, _, _, _)
CbcEncryptRuns(key, prev, padded, n) ==
    LET total == Len(padded) \div BlockSize
        last == Min(n + 31, total)
        run == CbcEncryptFrom(key, prev, padded, n, last)
    IN  IF n > total THEN <<>>
        ELSE run \o CbcEncryptRuns(key, SubSeq(run, Len(run) - BlockSize + 1, Len(run)),
                                   padded, last + 1)

\* The writer's side: PKCS-padded AES-256-CBC encryption of p.
CbcEncrypt(key, iv, p) == CbcEncryptRuns(key, iv, PkcsPad(p), 1)

----------------------------------------------------------------------------
(* The decryptor object of decrypt_enpass_data                             *)

\* aes::cbc_decryptor(KeySize256, &key, &iv, PkcsPadding) over
\* RefReadBuffer::new(input_data): nothing consumed, nothing pending.
NewDecryptor == [pos |-> 0, pend |-> <<>>, finished |-> FALSE]

\* decryptor.decrypt(&mut read_buffer, &mut write_buffer, true) with an
\* empty write buffer of cap bytes.  The engine copies out what is pending,
\* decrypts whole blocks straight into the output while more than one block
\* of input remains and a block fits, keeps the last block back until the
\* end of input is seen, strips its padding and hands the rest out.
\* Returns the decryptor after the call, the bytes written, the result and
\* the number of blocks put through the cipher.
DecryptorDecrypt(d, input, key, iv, cap) ==
    LET flushed == Take(d.pend, cap)
        pend0 == Drop(d.pend, cap)
        room0 == cap - Len(flushed)
        rem0 == Len(input) - d.pos
        nfast == IF rem0 > BlockSize /\ pend0 = <<>>
                 THEN Min((rem0 - 1) \div BlockSize, room0 \div BlockSize)
                 ELSE 0
        fast == CbcDecryptBlocks(key, iv, input, (d.pos \div BlockSize) + 1, nfast)
        pos1 == d.pos + nfast * BlockSize
        rem1 == Len(input) - pos1
        room1 == room0 - nfast * BlockSize
        nextBlock == CbcDecryptBlock(key, iv, input, (pos1 \div BlockSize) + 1)
    IN  IF d.finished \/ pend0 # <<>>
        THEN [d |-> [d EXCEPT !.pend = pend0], out |-> flushed,
              res |-> IF pend0 # <<>> THEN "BufferOverflow" ELSE "BufferUnderflow",
              blocks |-> 0]
        ELSE IF rem1 > BlockSize
        THEN \* not the last block: through the scratch buffer, no room left
             [d |-> [d EXCEPT !.pos = pos1 + BlockSize,
                              !.pend = Drop(nextBlock, room1)],
              out |-> flushed \o fast \o Take(nextBlock, room1),
              res |-> "BufferOverflow", blocks |-> nfast + 1]
        ELSE IF rem1 = 0
        THEN \* no input at all: nothing to strip
             [d |-> [d EXCEPT !.pos = pos1, !.pend = <<>>, !.finished = TRUE],
              out |-> flushed \o fast, res |-> "BufferUnderflow", blocks |-> nfast]
        ELSE IF rem1 < BlockSize
        THEN [d |-> [d EXCEPT !.pos = Len(input), !.finished = TRUE],
              out |-> flushed \o fast, res |-> "InvalidLength", blocks |-> nfast]
        ELSE IF ~PkcsValid(nextBlock)
        THEN [d |-> [d EXCEPT !.pos = Len(input), !.finished = TRUE],
              out |-> flushed \o fast, res |-> "InvalidPadding",
              blocks |-> nfast + 1]
        ELSE LET last == PkcsStrip(nextBlock)
             IN  [d |-> [d EXCEPT !.pos = Len(input), !.pend = Drop(last, room1),
                                  !.finished = TRUE],
                  out |-> flushed \o fast \o Take(last, room1),
                  res |-> IF Drop(last, room1) # <<>> THEN "BufferOverflow"
                          ELSE "BufferUnderflow",
                  blocks |-> nfast + 1]

----------------------------------------------------------------------------
(* decrypt_enpass_data                                                     *)

NoRet == [ok |-> FALSE, err |-> "none", val |-> <<>>]
RetOk(v) == [ok |-> TRUE, err |-> "none", val |-> v]
RetErr(e) == [ok |-> FALSE, err |-> e, val |-> <<>>]

\* The frame on entry: the arguments, nothing constructed yet.
DecFrame(input_data, key, iv) ==
    [input_data |-> input_data, key |-> key, iv |-> iv,
     decryptor |-> NewDecryptor, final_result |-> <<>>,
     pc |-> "entry", ret |-> NoRet,
     calls |-> 0, blocks |-> 0, overflows |-> 0]

\* Lines 59-68: the decryptor, the read buffer, final_result, the output
\* buffer and the write buffer over it.
DecEnterStep(f) ==
    [f EXCEPT !.decryptor = NewDecryptor, !.final_result = <<>>, !.pc = "loop"]

\* An iteration that drops the buffer's content on BufferOverflow.
DecLoopStepDropOnOverflow(f) ==
    LET r == DecryptorDecrypt(f.decryptor, f.input_data, f.key, f.iv,
                              OutputBufferSize)
        g == [f EXCEPT !.decryptor = r.d, !.calls = @ + 1,
                       !.blocks = @ + r.blocks]
    IN  IF r.res \in {"InvalidLength", "InvalidPadding"}
        THEN [g EXCEPT !.pc = "returned", !.ret = RetErr(r.res)]
        ELSE IF r.res = "BufferUnderflow"
        THEN [g EXCEPT !.final_result = @ \o r.out, !.pc = "returned",
                       !.ret = RetOk(f.final_result \o r.out)]
        ELSE [g EXCEPT !.overflows = @ + 1]

\* Lines 69-82: one iteration of the loop.
DecLoopStep(f) ==
    LET r == DecryptorDecrypt(f.decryptor, f.input_data, f.key, f.iv,
                              OutputBufferSize)
        g == [f EXCEPT !.decryptor = r.d, !.calls = @ + 1,
                       !.blocks = @ + r.blocks]
    IN  IF r.res \in {"InvalidLength", "InvalidPadding"}
        THEN \* .map_err(Error::CryptoError)?
             [g EXCEPT !.pc = "returned", !.ret = RetErr(r.res)]
        ELSE IF r.res = "BufferUnderflow"
        THEN [g EXCEPT !.final_result = @ \o r.out, !.pc = "returned",
                       !.ret = RetOk(f.final_result \o r.out)]
        ELSE [g EXCEPT !.final_result = @ \o r.out, !.overflows = @ + 1]

RECURSIVE DecRun(_)
DecRun(f) ==
    IF f.pc = "returned" THEN f
    ELSE IF f.pc = "entry" THEN DecRun(DecEnterStep(f))
    ELSE DecRun(DecLoopStep(f))

\* The function as a whole: its frame at the return.
decrypt_enpass_data(input_data, key, iv) == DecRun(DecFrame(input_data, key, iv))

----------------------------------------------------------------------------
(* serde_json::from_slice, on the JSON values a record may hold: objects   *)
(* with string keys, arrays, strings without escapes, unsigned integers    *)

ChQuote == 34
ChComma == 44
ChColon == 58
ChLBracket == 91
ChRBracket == 93
ChLBrace == 123
ChRBrace == 125
ChZero == 48
ChNine == 57

ParseFail == [ok |-> FALSE, next |-> 0, val |-> [t |-> "none", v |-> <<>>]]
Parsed(next, t, v) == [ok |-> TRUE, next |-> next, val |-> [t |-> t, v |-> v]]

IsDigit(c) == c >= ChZero /\ c <= ChNine
IsStringChar(c) == c >= 32 /\ c < 127 /\ c # ChQuote /\ c # 92

\* The end (exclusive) of the run of bytes satisfying the test from i on.
RECURSIVE DigitsEnd(_, _)
DigitsEnd(s, i) == IF i <= Len(s) /\ IsDigit(s[i]) THEN DigitsEnd(s, i + 1) ELSE i

RECURSIVE StringEnd(_, _)
StringEnd(s, i) ==
    IF i <= Len(s) /\ IsStringChar(s[i]) THEN StringEnd(s, i + 1) ELSE i

\* A string literal starting at the quote at i.
ParseString(s, i) ==
    LET e == StringEnd(s, i + 1)
    IN  IF i <= Len(s) /\ s[i] = ChQuote /\ e <= Len(s) /\ s[e] = ChQuote
        THEN Parsed(e + 1, "str", SubSeq(s, i + 1, e - 1))
        ELSE ParseFail

RECURSIVE ParseValue(_, _), ParseElements(_, _, _), ParseMembers(_, _, _)

\* The elements of an array after its '[' (or after a ','), acc being the
\* elements read so far.
ParseElements(s, i, acc) ==
    LET e == ParseValue(s, i)
    IN  IF ~e.ok THEN ParseFail
        ELSE IF e.next <= Len(s) /\ s[e.next] = ChComma
        THEN ParseElements(s, e.next + 1, Append(acc, e.val))
        ELSE IF e.next <= Len(s) /\ s[e.next] = ChRBracket
        THEN Parsed(e.next + 1, "arr", Append(acc, e.val))
        ELSE ParseFail

\* The members of an object after its '{' (or after a ',').
ParseMembers(s, i, acc) ==
    LET k == ParseString(s, i)
        e == ParseValue(s, k.next + 1)
    IN  IF ~k.ok \/ k.next > Len(s) \/ s[k.next] # ChColon THEN ParseFail
        ELSE IF ~e.ok THEN ParseFail
        ELSE IF e.next <= Len(s) /\ s[e.next] = ChComma
        THEN ParseMembers(s, e.next + 1, Append(acc, <<k.val.v, e.val>>))
        ELSE IF e.next <= Len(s) /\ s[e.next] = ChRBrace
        THEN Parsed(e.next + 1, "obj", Append(acc, <<k.val.v, e.val>>))
        ELSE ParseFail

ParseValue(s, i) ==
    IF i > Len(s) THEN ParseFail
    ELSE IF IsDigit(s[i])
    THEN Parsed(DigitsEnd(s, i), "num", SubSeq(s, i, DigitsEnd(s, i) - 1))
    ELSE IF s[i] = ChQuote THEN ParseString(s, i)
    ELSE IF s[i] = ChLBracket
    THEN IF i < Len(s) /\ s[i + 1] = ChRBracket
         THEN Parsed(i + 2, "arr", <<>>)
         ELSE ParseElements(s, i + 1, <<>>)
    ELSE IF s[i] = ChLBrace
    THEN IF i < Len(s) /\ s[i + 1] = ChRBrace
         THEN Parsed(i + 2, "obj", <<>>)
         ELSE ParseMembers(s, i + 1, <<>>)
    ELSE ParseFail

\* serde_json::from_slice(&decrypted): one value and nothing after it.
from_slice(s) ==
    LET r == ParseValue(s, 1)
    IN  IF r.ok /\ r.next = Len(s) + 1 THEN r ELSE ParseFail

----------------------------------------------------------------------------
(* Key derivation: HMAC-SHA-256 and PBKDF2 (crate rust-crypto)             *)

\* Sum of s[i] * (i + w): every byte of s and its position count.
RECURSIVE WeightedSum(_, _, _)
WeightedSum(s, w, i) ==
    IF i > Len(s) THEN 0 ELSE s[i] * (i + w) + WeightedSum(s, w, i + 1)

\* Hmac::new(Sha256::new(), key) applied to msg: 32 bytes, a function of
\* the key and of the message.
HmacSha256(key, msg) ==
    Bytes([j \in 1..32 |->
             (3 * WeightedSum(key, j, 1) + WeightedSum(msg, j + 5, 1) + 91 * j) % 256])

\* U_1 xor ... xor U_c from U_n = u on, where U_(n+1) = PRF(U_n).
RECURSIVE Pbkdf2Chain(_, _, _)
Pbkdf2Chain(key, u, c) ==
    IF c <= 1 THEN u
    ELSE LET rest == Pbkdf2Chain(key, HmacSha256(key, u), c - 1)
         IN  Bytes([j \in 1..32 |-> Xor(u[j], rest[j])])

\* pbkdf2(&mut mac, salt, c, &mut output) for an output of one PRF block:
\* block 1 is the chain from PRF(salt || INT(1)).
pbkdf2(macKey, salt, c, dkLen) ==
    Take(Pbkdf2Chain(macKey, HmacSha256(macKey, salt \o <<0, 0, 0, 1>>), c), dkLen)

\* A variable of a specification that is not the one running.
Idle == [pc |-> "idle"]

NoIdentity == [present |-> FALSE, hash |-> <<>>, info |-> <<>>]

NoKeyIv == [set |-> FALSE, panicked |-> FALSE, key |-> <<>>, iv |-> <<>>]

\* A derivation keyed by the command line's password instead of the hash.
DeriveKeyIvFromPassword(o, ident) ==
    IF ~SliceInBounds(ident.info, IvStart, SaltStart)
       \/ ~SliceInBounds(ident.info, SaltStart, SaltEnd)
    THEN [NoKeyIv EXCEPT !.panicked = TRUE]
    ELSE [set |-> TRUE, panicked |-> FALSE,
          key |-> pbkdf2(o.password, Slice(ident.info, SaltStart, SaltEnd),
                         Pbkdf2Iterations, KeyLen),
          iv |-> Slice(ident.info, IvStart, SaltStart)]

\* Lines 138-146 with opt in scope: the iv and the salt are slices of
\* ident.info (a slice out of bounds panics), the key is PBKDF2 under
\* HMAC keyed by identity.hash.as_bytes().
DeriveKeyIv(o, ident) ==
    IF ~SliceInBounds(ident.info, IvStart, SaltStart)
       \/ ~SliceInBounds(ident.info, SaltStart, SaltEnd)
    THEN [NoKeyIv EXCEPT !.panicked = TRUE]
    ELSE [set |-> TRUE, panicked |-> FALSE,
          key |-> pbkdf2(ident.hash, Slice(ident.info, SaltStart, SaltEnd),
                         Pbkdf2Iterations, KeyLen),
          iv |-> Slice(ident.info, IvStart, SaltStart)]

----------------------------------------------------------------------------
(* The vault: the tables the run reads                                     *)

\* "testhash"
VaultHash == <<116, 101, 115, 116, 104, 97, 115, 104>>
\* "otherhash"
OtherHash == <<111, 116, 104, 101, 114, 104, 97, 115, 104>>

\* An info blob of n bytes: the bytes [16,32) are ivByte, the salt bytes
\* [32,48) are 1..16 shifted by saltShift, the bytes before are zero and
\* the bytes after a filler.
InfoWith(n, ivByte, saltShift) ==
    Bytes([i \in 1..n |-> IF i > SaltEnd THEN 200 + (i % 50)
                          ELSE IF i > SaltStart THEN i - SaltStart + saltShift
                          ELSE IF i > IvStart THEN ivByte
                          ELSE 0])

InfoOf(n) == InfoWith(n, 0, 0)

IdentityRow(hash, info) == [present |-> TRUE, hash |-> hash, info |-> info]

\* The row the vault's records were written under.
VaultIdentity == IdentityRow(VaultHash, InfoOf(48))

\* The contents of table Identity explored: no row, the vault's row, a row
\* with another hash, rows with an info blob of 64, 40 and 20 bytes, and
\* tables of two rows.
IdentityTables ==
    { <<>>,
      <<VaultIdentity>>,
      <<IdentityRow(OtherHash, InfoOf(48))>>,
      <<IdentityRow(VaultHash, InfoOf(64))>>,
      <<IdentityRow(VaultHash, InfoOf(40))>>,
      <<IdentityRow(VaultHash, InfoOf(20))>>,
      <<VaultIdentity, IdentityRow(OtherHash, InfoOf(48))>>,
      <<IdentityRow(OtherHash, InfoOf(48)), VaultIdentity>> }

VaultKeyIv == DeriveKeyIv([password |-> <<>>], VaultIdentity)

\* {"a":1}
JsonText == <<123, 34, 97, 34, 58, 49, 125>>
\* {"a":
BrokenJsonText == <<123, 34, 97, 34, 58>>

CardKinds == {"json", "notjson", "badlen", "badpad", "empty"}

\* The data column of a record of each kind: written by the vault's key
\* from a JSON text or from a text that is no JSON, of a length that is no
\* multiple of the block size, a block that ends in no padding, or empty.
CardData(kind) ==
    CASE kind = "json" -> CbcEncrypt(VaultKeyIv.key, VaultKeyIv.iv, JsonText)
      [] kind = "notjson" -> CbcEncrypt(VaultKeyIv.key, VaultKeyIv.iv, BrokenJsonText)
      [] kind = "badlen" -> Take(CbcEncrypt(VaultKeyIv.key, VaultKeyIv.iv, JsonText), 15)
      [] kind = "badpad" -> AesEncryptBlock(VaultKeyIv.key,
                                XorBlock(Pattern(BlockSize, 3), VaultKeyIv.iv))
      [] OTHER -> <<>>

\* The rows of the Cards query for a sequence of kinds; the id is the
\* row's place in the query's order.
CardRows(kinds) ==
    [i \in 1..Len(kinds) |-> [id |-> i, data |-> CardData(kinds[i])]]

Passwords == {<<104, 117, 110, 116, 101, 114>>}

----------------------------------------------------------------------------
(* Spec: one run of main()                                                 *)

Init ==
    /\ opt \in [version_6 : BOOLEAN, password : Passwords]
    /\ dbIdentity \in IdentityTables
    /\ \E n \in 0..MaxCards : \E kinds \in [1..n -> CardKinds] :
          dbCards = CardRows(kinds)
    /\ conn = "none"
    /\ pc = "start"
    /\ identity = NoIdentity
    /\ keyiv = NoKeyIv
    /\ cursor = 0
    /\ stdout = <<>>
    /\ stderr = <<>>
    /\ result = "none"
    /\ derivations = 0
    /\ decryptLog = <<>>
    /\ call = Idle /\ harness = Idle /\ dcalls = <<>>

\* main returns Err(e): the runtime prints the error and the process ends.
ReturnErr(e) ==
    /\ pc' = "done"
    /\ result' = e
    /\ stderr' = Append(stderr, [kind |-> "error", text |-> e, record |-> 0])

\* A panic: the message goes to standard error and the process ends.
Panic(msg) ==
    /\ pc' = "done"
    /\ result' = "panic"
    /\ stderr' = Append(stderr, [kind |-> "panic", text |-> msg, record |-> 0])

\* Line 108: Connection::open(opt.database)?
Open ==
    /\ pc = "start"
    /\ \/ /\ conn' = "open"
          /\ pc' = "opened"
          /\ UNCHANGED <<result, stderr>>
       \/ /\ ReturnErr("SqlCipherError")
          /\ UNCHANGED conn
    /\ UNCHANGED <<opt, dbIdentity, dbCards, identity, keyiv, cursor, stdout,
                   derivations, decryptLog, cvars, dcalls>>

\* Line 114: conn.execute_batch("PRAGMA key = '<password>'")?
KeyPragma ==
    /\ pc = "opened"
    /\ \/ /\ conn' = "keyed"
          /\ pc' = "keyed"
          /\ UNCHANGED <<result, stderr>>
       \/ /\ ReturnErr("SqlCipherError")
          /\ UNCHANGED conn
    /\ UNCHANGED <<opt, dbIdentity, dbCards, identity, keyiv, cursor, stdout,
                   derivations, decryptLog, cvars, dcalls>>

\* A version check that goes on with the Enpass 5 pragmas under -6 too.
VersionCheckFallThrough ==
    /\ pc = "keyed"
    /\ \/ /\ conn' = "configured"
          /\ pc' = "configured"
          /\ UNCHANGED <<result, stderr>>
       \/ /\ ReturnErr("SqlCipherError")
          /\ UNCHANGED conn
    /\ UNCHANGED <<opt, dbIdentity, dbCards, identity, keyiv, cursor, stdout,
                   derivations, decryptLog, cvars, dcalls>>

\* Lines 115-123: under -6 the message and Err(UnsupportedEnpassVersion),
\* otherwise conn.execute_batch(ENPASS5_PRAGMAS)?
VersionCheck ==
    /\ pc = "keyed"
    /\ \/ /\ opt.version_6
          /\ pc' = "done"
          /\ result' = "UnsupportedEnpassVersion"
          /\ stderr' = stderr \o
                <<[kind |-> "message", text |-> "Enpass 6 is currently not supported.",
                   record |-> 0],
                  [kind |-> "error", text |-> "UnsupportedEnpassVersion", record |-> 0]>>
          /\ UNCHANGED conn
       \/ /\ ~opt.version_6
          /\ conn' = "configured"
          /\ pc' = "configured"
          /\ UNCHANGED <<result, stderr>>
       \/ /\ ~opt.version_6
          /\ ReturnErr("SqlCipherError")
          /\ UNCHANGED conn
    /\ UNCHANGED <<opt, dbIdentity, dbCards, identity, keyiv, cursor, stdout,
                   derivations, decryptLog, cvars, dcalls>>

\* Lines 125-147: prepare("SELECT * FROM Identity")?, query_row (an error
\* when the query has no row; the first row otherwise, the rows after it
\* are not looked at), then the derivation of (key, iv).  The debug! line
\* of 136 changes nothing the run reads and is left out.
KeyBlock ==
    /\ pc = "configured"
    /\ \/ \* conn.prepare(..)? fails
          /\ ReturnErr("SqlCipherError")
          /\ UNCHANGED <<identity, keyiv, derivations>>
       \/ \* query_row: QueryReturnedNoRows
          /\ Len(dbIdentity) = 0
          /\ ReturnErr("SqlCipherError")
          /\ UNCHANGED <<identity, keyiv, derivations>>
       \/ /\ Len(dbIdentity) > 0
          /\ identity' = dbIdentity[1]
          /\ LET d == DeriveKeyIv(opt, dbIdentity[1])
             IN  \/ /\ d.panicked
                    /\ Panic("range end index out of range for slice")
                    /\ UNCHANGED <<keyiv, derivations>>
                 \/ /\ ~d.panicked
                    /\ keyiv' = d
                    /\ derivations' = derivations + 1
                    /\ pc' = "derived"
                    /\ UNCHANGED <<result, stderr>>
    /\ UNCHANGED <<opt, dbIdentity, dbCards, conn, cursor, stdout, decryptLog,
                   cvars, dcalls>>

\* Lines 150-154, 170: conn.prepare("SELECT ... FROM Cards ORDER BY ...")?
\* and stmt.query_map(..)?
QueryCards ==
    /\ pc = "derived"
    /\ \/ /\ pc' = "iterating"
          /\ UNCHANGED <<result, stderr>>
       \/ ReturnErr("SqlCipherError")
    /\ UNCHANGED <<opt, dbIdentity, dbCards, conn, identity, keyiv, cursor,
                   stdout, derivations, decryptLog, cvars, dcalls>>

\* What the closure of lines 154-170 returns for a row under (key, iv).
RowResult(row, key, iv) ==
    LET f == decrypt_enpass_data(row.data, key, iv)
        j == from_slice(f.ret.val)
    IN  IF ~f.ret.ok THEN [ok |-> FALSE, err |-> "CryptoError", card |-> <<>>]
        ELSE IF ~j.ok THEN [ok |-> FALSE, err |-> "SerdeJsonError", card |-> <<>>]
        ELSE [ok |-> TRUE, err |-> "none",
              card |-> [id |-> row.id, data |-> j.val]]

LogEntry(row, key, iv, r, n) ==
    [id |-> row.id, key |-> key, iv |-> iv, ok |-> r.ok, err |-> r.err,
     derivations |-> n]

\* A row whose key is derived again inside the closure.
ProcessRowRederive ==
    /\ pc = "iterating"
    /\ cursor < Len(dbCards)
    /\ LET row == dbCards[cursor + 1]
           d == DeriveKeyIv(opt, identity)
           r == RowResult(row, d.key, d.iv)
       IN  /\ cursor' = cursor + 1
           /\ derivations' = derivations + 1
           /\ keyiv' = d
           /\ decryptLog' = Append(decryptLog,
                                   LogEntry(row, d.key, d.iv, r, derivations + 1))
           /\ IF r.ok THEN stdout' = Append(stdout, r.card) ELSE UNCHANGED stdout
           /\ UNCHANGED <<pc, result, stderr>>
    /\ UNCHANGED <<opt, dbIdentity, dbCards, conn, identity, cvars, dcalls>>

\* A row whose error ends the run (the closure's error returned with ?).
ProcessRowAbortOnError ==
    /\ pc = "iterating"
    /\ cursor < Len(dbCards)
    /\ LET row == dbCards[cursor + 1]
           r == RowResult(row, keyiv.key, keyiv.iv)
       IN  /\ cursor' = cursor + 1
           /\ decryptLog' = Append(decryptLog,
                                   LogEntry(row, keyiv.key, keyiv.iv, r, derivations))
           /\ \/ /\ r.ok
                 /\ stdout' = Append(stdout, r.card)
                 /\ UNCHANGED <<pc, result, stderr>>
              \/ /\ ~r.ok
                 /\ ReturnErr(r.err)
                 /\ UNCHANGED stdout
    /\ UNCHANGED <<opt, dbIdentity, dbCards, conn, identity, keyiv, derivations,
                   cvars, dcalls>>

\* Lines 154-180, one row of the query through the pipeline: the closure
\* decrypts and parses it, the two filter_map(|res| res.ok()) drop an Err,
\* for_each writes an Ok card as a line (a failed write panics).  The rows
\* are rows of the Cards schema: the data column is a blob and the other
\* columns have the types row.get reads them as.
ProcessRow ==
    /\ pc = "iterating"
    /\ cursor < Len(dbCards)
    /\ LET row == dbCards[cursor + 1]
           r == RowResult(row, keyiv.key, keyiv.iv)
       IN  /\ cursor' = cursor + 1
           /\ decryptLog' = Append(decryptLog,
                                   LogEntry(row, keyiv.key, keyiv.iv, r, derivations))
           /\ \/ /\ r.ok
                 /\ stdout' = Append(stdout, r.card)
                 /\ UNCHANGED <<pc, result, stderr>>
              \/ /\ r.ok
                 /\ Panic("Failed to write")
                 /\ UNCHANGED stdout
              \/ /\ ~r.ok
                 /\ UNCHANGED <<stdout, pc, result, stderr>>
    /\ UNCHANGED <<opt, dbIdentity, dbCards, conn, identity, keyiv, derivations,
                   cvars, dcalls>>

\* Line 183: the iterator is exhausted, Ok(()).
Finish ==
    /\ pc = "iterating"
    /\ cursor = Len(dbCards)
    /\ pc' = "done"
    /\ result' = "Ok"
    /\ UNCHANGED <<opt, dbIdentity, dbCards, conn, identity, keyiv, cursor,
                   stdout, stderr, derivations, decryptLog, cvars, dcalls>>

Next ==
    \/ Open
    \/ KeyPragma
    \/ VersionCheck
    \/ KeyBlock
    \/ QueryCards
    \/ ProcessRow
    \/ Finish

Spec == Init /\ [][Next]_vars

----------------------------------------------------------------------------
(* DecSpec: decrypt_enpass_data on one payload                             *)

\* The k-th key and IV tried.
KeyOf(k) == Bytes([i \in 1..KeyLen |-> (k * 37 + i * 11) % 256])
IvOf(k) == Bytes([i \in 1..BlockSize |-> (k * 101 + i * 3) % 256])

\* Plaintext lengths of the round trip: the block boundaries, the size of
\* the output buffer and its neighbours, and more than two buffers.
RoundTripLens == {0, 1, 15, 16, 17, 4080, 4095, 4096, 4097, 8200}

\* Lengths of payloads that are no output of the encryption, in the order
\* they are tried.
RawLens == <<17, 1, 15, 31, 4113, 0, 16, 32, 4112>>

DecInit ==
    /\ \E k \in 1..NumKeys :
         \/ \E n \in RoundTripLens :
               /\ harness = [pc |-> "harness", mode |-> "roundtrip",
                            plain |-> Pattern(n, k)]
               /\ call = DecFrame(CbcEncrypt(KeyOf(k), IvOf(k), Pattern(n, k)),
                                  KeyOf(k), IvOf(k))
         \/ \E i \in 1..Len(RawLens) :
               /\ harness = [pc |-> "harness", mode |-> "raw", plain |-> <<>>]
               /\ call = DecFrame(Pattern(RawLens[i], k), KeyOf(k), IvOf(k))
    /\ opt = Idle /\ dbIdentity = <<>> /\ dbCards = <<>> /\ pc = "idle"
    /\ conn = "none" /\ identity = NoIdentity
    /\ keyiv = NoKeyIv /\ cursor = 0 /\ stdout = <<>> /\ stderr = <<>>
    /\ result = "none" /\ derivations = 0 /\ decryptLog = <<>>
    /\ dcalls = <<>>

DecEnter ==
    /\ call.pc = "entry"
    /\ call' = DecEnterStep(call)
    /\ UNCHANGED <<svars, harness, dcalls>>

DecLoop ==
    /\ call.pc = "loop"
    /\ call' = DecLoopStep(call)
    /\ UNCHANGED <<svars, harness, dcalls>>

DecNext == DecEnter \/ DecLoop

DecSpec == DecInit /\ [][DecNext]_vars

----------------------------------------------------------------------------
(* DerivSpec: the derivation of lines 138-146 called on two inputs         *)

DerivPasswords == {<<104, 117, 110, 116, 101, 114>>, <<112, 119>>}

DerivInfos ==
    { InfoOf(48), InfoOf(64), InfoOf(40),
      InfoWith(48, 9, 0), InfoWith(48, 0, 5) }

DerivInput(pw, hash, info) ==
    [opt |-> [version_6 |-> FALSE, password |-> pw],
     identity |-> IdentityRow(hash, info),
     out |-> NoKeyIv, done |-> FALSE]

DerivInputs ==
    { DerivInput(pw, hash, info) :
        pw \in DerivPasswords, hash \in {VaultHash, OtherHash}, info \in DerivInfos }

DerivInit ==
    /\ \E a \in DerivInputs : \E b \in DerivInputs : dcalls = <<a, b>>
    /\ opt = Idle /\ dbIdentity = <<>> /\ dbCards = <<>> /\ pc = "idle"
    /\ conn = "none" /\ identity = NoIdentity
    /\ keyiv = NoKeyIv /\ cursor = 0 /\ stdout = <<>> /\ stderr = <<>>
    /\ result = "none" /\ derivations = 0 /\ decryptLog = <<>>
    /\ call = Idle /\ harness = Idle

\* The i-th call runs the derivation on its own opt and identity.
DerivCall(i) ==
    /\ ~dcalls[i].done
    /\ dcalls' = [dcalls EXCEPT
                    ![i].out = DeriveKeyIv(dcalls[i].opt, dcalls[i].identity),
                    ![i].done = TRUE]
    /\ UNCHANGED <<svars, cvars>>

DerivNext == \E i \in 1..2 : DerivCall(i)

DerivSpec == DerivInit /\ [][DerivNext]_vars

----------------------------------------------------------------------------
(* Properties                                                              *)

\* The ids of the entries of a sequence of rows, cards or log entries.
Ids(s) == [i \in 1..Len(s) |-> s[i].id]

IsOk(e) == e.ok

\* C1: every record whose processing failed (a ciphertext length error, a
\* padding error or a parse error) is signalled together with the record
\* that triggered it: when the run has ended it is in the output, or an
\* error report names it.
C1_FailedRecordSignaled ==
    pc = "done" =>
        \A i \in 1..Len(decryptLog) :
            ~decryptLog[i].ok =>
                \/ \E j \in 1..Len(stderr) : stderr[j].record = decryptLog[i].id
                \/ \E j \in 1..Len(stdout) : stdout[j].id = decryptLog[i].id

\* C2 as stated: a run with -6 always ends with UnsupportedEnpassVersion,
\* having derived no key and decrypted no record.
C2_V6AlwaysUnsupported ==
    opt.version_6 =>
        /\ derivations = 0
        /\ decryptLog = <<>>
        /\ pc = "done" => result = "UnsupportedEnpassVersion"

\* C2 amended: a run with -6 never derives a key and never decrypts a
\* record; once the connection is open and the key pragma has run it ends
\* with UnsupportedEnpassVersion, and a run that ends earlier ends with
\* the error of the open or of the key pragma.
C2_V6UnsupportedOnceKeyed ==
    opt.version_6 =>
        /\ derivations = 0
        /\ decryptLog = <<>>
        /\ ~keyiv.set
        /\ conn # "configured"
        /\ pc = "done" =>
              IF conn = "keyed" THEN result = "UnsupportedEnpassVersion"
              ELSE result = "SqlCipherError"

C2_Witness ==
    /\ opt.version_6
    /\ pc = "done"
    /\ conn = "keyed"
    /\ result = "UnsupportedEnpassVersion"

\* C3: an identity whose info blob is shorter than 48 bytes makes the key
\* derivation fail with the error value MalformedIdentity, no key derived.
C3_ShortInfoIsMalformedIdentity ==
    (pc = "done" /\ identity.present /\ Len(identity.info) < SaltEnd) =>
        /\ result = "MalformedIdentity"
        /\ derivations = 0

\* C4: the key is derived at most once in a run and exactly once in a run
\* that reaches the Cards query; every call of decrypt_enpass_data happens
\* after that one derivation, and every call gets the key and the iv it
\* produced.
C4_KeyDerivedOnceBeforeDecrypt ==
    /\ derivations <= 1
    /\ (pc \in {"derived", "iterating"} \/ result = "Ok") => derivations = 1
    /\ \A i \in 1..Len(decryptLog) :
          /\ decryptLog[i].derivations = 1
          /\ keyiv.set
          /\ decryptLog[i].key = keyiv.key
          /\ decryptLog[i].iv = keyiv.iv

C4_Witness ==
    /\ Len(decryptLog) >= 2
    /\ derivations = 1
    /\ decryptLog[1].key = decryptLog[2].key

\* C5: the output holds one result per input record, in the order of the
\* input records.
C5_OneResultPerRecordInOrder ==
    (pc = "done" /\ result = "Ok") =>
        /\ Len(stdout) = Len(dbCards)
        /\ Ids(stdout) = Ids(dbCards)

\* C6: a payload whose length is zero or no multiple of 16 makes
\* decrypt_enpass_data fail with the length error, without a call of the
\* decryptor and without a block put through the cipher.
C6_LengthCheckedBeforeCipher ==
    (/\ pc = "idle"
     /\ call.pc = "returned"
     /\ (Len(call.input_data) = 0 \/ Len(call.input_data) % BlockSize # 0)) =>
        /\ ~call.ret.ok
        /\ call.ret.err = "InvalidLength"
        /\ call.calls = 0
        /\ call.blocks = 0

\* C7: decrypt_enpass_data on the PKCS-padded CBC encryption of a payload
\* under the same key and iv returns exactly the payload, for every length
\* of RoundTripLens: each byte once, in order, across the buffer's refills.
C7_RoundTrip ==
    (harness.pc = "harness" /\ harness.mode = "roundtrip" /\ call.pc = "returned") =>
        /\ call.ret.ok
        /\ call.ret.val = harness.plain
        /\ call.final_result = harness.plain

C7_Witness ==
    /\ harness.pc = "harness"
    /\ harness.mode = "roundtrip"
    /\ call.pc = "returned"
    /\ call.ret.ok
    /\ Len(harness.plain) > OutputBufferSize
    /\ call.overflows >= 1
    /\ call.ret.val = harness.plain

\* C8: an Identity table of no row or of more than one row ends the run
\* with an error, and no key is derived from it.
C8_ExactlyOneIdentityRow ==
    (/\ conn = "configured"
     /\ pc \in {"derived", "iterating", "done"}
     /\ Len(dbIdentity) # 1) =>
        /\ pc = "done"
        /\ result \notin {"Ok", "none"}
        /\ derivations = 0
        /\ ~keyiv.set

BothDerived ==
    /\ Len(dcalls) = 2
    /\ dcalls[1].done /\ dcalls[2].done
    /\ dcalls[1].out.set /\ dcalls[2].out.set

SameHash == dcalls[1].identity.hash = dcalls[2].identity.hash

SameSlice(a, b) ==
    Slice(dcalls[1].identity.info, a, b) = Slice(dcalls[2].identity.info, a, b)

\* C9 as stated: two derivations with the same hash and the same salt
\* yield the same key and the same iv.
C9_SameHashSaltSameKeyIv ==
    (BothDerived /\ SameHash /\ SameSlice(SaltStart, SaltEnd)) =>
        /\ dcalls[1].out.key = dcalls[2].out.key
        /\ dcalls[1].out.iv = dcalls[2].out.iv

\* C9 amended: two derivations with the same hash and the same salt yield
\* the same key, and with the same bytes [16,32) of info as well the same
\* iv, whatever the passwords and the rest of the two inputs.
C9_SameHashInfoSameKeyIv ==
    (BothDerived /\ SameHash /\ SameSlice(SaltStart, SaltEnd)) =>
        /\ dcalls[1].out.key = dcalls[2].out.key
        /\ SameSlice(IvStart, SaltStart) => dcalls[1].out.iv = dcalls[2].out.iv

C9_Witness ==
    /\ BothDerived
    /\ SameHash
    /\ SameSlice(IvStart, SaltEnd)
    /\ dcalls[1].opt.password # dcalls[2].opt.password
    /\ Len(dcalls[1].identity.info) # Len(dcalls[2].identity.info)
    /\ dcalls[1].out = dcalls[2].out

\* The ids of the records processed with success, in the order processed.
OkIds == Ids(SelectSeq(decryptLog, IsOk))

====
